---- MODULE Spec2Model ----
(***************************************************************************)
(* Model of the WaveformPlayer React component                             *)
(* (src/components/waveform-player.tsx) as mounted by Page                 *)
(* (src/unnamed/part_000).  One player instance is modelled: its refs,     *)
(* its React state, the audio contexts and source nodes it creates, the    *)
(* animation frames it has requested, the decodes in flight and the        *)
(* "ended" events queued by the audio thread.  The parent owns isPlaying   *)
(* and audioBase64; React commits their changes by running the effects.    *)
(***************************************************************************)
EXTENDS Integers, FiniteSets, Sequences, TLC

\* ---- bounds of the model ------------------------------------------------
MaxClock == 2        \* audio clock values 0..MaxClock
MaxSessions == 2     \* source nodes created by startPlayback
MaxGen == 2          \* runs of the decode effect (mount + payload changes)

\* Every change of audioBase64 brings a payload not seen before, so a payload
\* is named by the run of the decode effect that decodes it.
Gens == 1..MaxGen
Sessions == 1..MaxSessions

VARIABLES
  phase,            \* "mounted" | "detached" (refs cleared, cleanup pending) | "unmounted"
  isPlaying,        \* Page state isPlaying (prop of the player)
  effIsPlaying,     \* value of isPlaying for which the [isPlaying] effect last ran
  audioBase64,      \* prop audioBase64 (gen: as committed, gen + 1: changed, not yet committed)
  gen,              \* number of runs of the [audioBase64] effect = id of the latest AudioContext
  ctxState,         \* gen -> "none" | "suspended" | "running" | "closed"
  clock,            \* currentTime of the context audioContextRef.current
  decodes,          \* decodeAudioData promises in flight (by gen)
  audioBufferRef,   \* 0 (null) or gen whose decode produced the buffer
  duration,         \* React state duration
  currentTime,      \* React state currentTime (last value given to setCurrentTime)
  startTimeRef,
  nSess,            \* number of source nodes created so far
  srcState,         \* session -> "none" | "playing" | "stopped" | "finished" | "closed"
                    \* (closed: its context was closed while it played)
  srcBuf,           \* session -> buffer (gen) the source node plays (0 once it no longer plays)
  srcStart,         \* session -> context time at which the source started (0 once it no longer plays)
  endedQ,           \* sessions whose "ended" event is queued, not yet dispatched
  endedCalls,       \* session -> number of onEnded() calls made by its handler
  sourceRef,        \* 0 (null) or session
  analyserRef,      \* 0 (null) or session whose analyser it holds
  animationRef,     \* last id returned by requestAnimationFrame (0 initially)
  rafPending,       \* requested frames: records [id, dur], dur = duration captured by the closure
  canvas,           \* what the canvas shows: [kind, buf]
  unhandled,        \* runs of the decode effect whose decode rejected with no handler
  stopError         \* an exception of source.stop() left stopPlayback

\* state of the request limiter of the /api/generate route
VARIABLES
  now,              \* Date.now()
  dailyCount,
  dailyResetAt,
  ipRequestMap,     \* ip -> [count, resetAt], or NoEntry
  rlResult          \* what the last checkRateLimit call returned

\* arguments and results of the pure functions
VARIABLES
  bars,             \* one live frame's bar colouring
  fmt               \* one formatTime call

playerVars == <<phase, isPlaying, effIsPlaying, audioBase64, gen, ctxState,
                clock, decodes, audioBufferRef, duration, currentTime, startTimeRef,
                nSess, srcState, srcBuf, srcStart, endedQ, endedCalls,
                sourceRef, analyserRef, animationRef, rafPending, canvas,
                unhandled, stopError>>

limiterVars == <<now, dailyCount, dailyResetAt, ipRequestMap, rlResult>>

\* everything the player does not touch
nonPlayerVars == <<limiterVars, bars, fmt>>

vars == <<playerVars, limiterVars, bars, fmt>>

\* ---- helpers ------------------------------------------------------------

\* buffer.duration of the buffer decoded by run g
Dur(g) == g

\* A source graph is active: started, not stopped, not ended, context not closed.
Active(s) == srcState[s] = "playing"

ActiveSources == {s \in Sessions : Active(s)}

\* cancelAnimationFrame(id)
CancelFrame_Noop(pending, id) == pending
CancelFrame(pending, id) == {r \in pending : r.id # id}

\* requestAnimationFrame: a fresh id (ids are never reused while referenced)
NewRafId(pending, ref) ==
  CHOOSE n \in 1..(Cardinality(pending) + 2) :
     /\ n # ref
     /\ \A r \in pending : r.id # n
     /\ \A m \in 1..(n-1) : m = ref \/ \E r \in pending : r.id = m

\* ctx.close()
CloseCtx_Noop(st) == st
CloseCtx(st) == "closed"

\* ctx.resume() when suspended
ResumeCtx(st) == IF st = "suspended" THEN "running" ELSE st

\* source.stop(): state of the node afterwards
SourceAfterStop_Noop(st) == st
SourceAfterStop(st) == IF st = "playing" THEN "stopped" ELSE st

\* source.stop() may raise InvalidStateError on a node that no longer plays
\* (implementations differ); the set of outcomes "it threw"
StopThrows(st) == IF st = "playing" THEN {FALSE} ELSE {FALSE, TRUE}

\* try { sourceRef.current.stop() } catch {}: does the exception leave stopPlayback
StopEscapes_NoCatch(threw) == threw
StopEscapes(threw) == FALSE

\* ctx.decodeAudioData(...).then(onFulfilled): the runs whose rejection meets no
\* rejection handler when the decode of run g rejects
RejectionUnhandled(g) == {g}

\* source.stop() queues an "ended" event when it halts a node that is playing
\* (a node whose context was closed is no longer rendered and gets no event)
StopQueuesEnded(st) == st = "playing"

\* what closing its context does to a source node: cst is the state of the
\* context after ctx.close()
SourceOnClose(st, cst) == IF st = "playing" /\ cst = "closed" THEN "closed" ELSE st

\* drawStaticWaveform(buffer): returns the canvas content
DrawStatic_Skip(attached, cv, buf) == cv
DrawStatic(attached, cv, buf) ==
  IF ~attached THEN cv ELSE [kind |-> "static", buf |-> buf]

\* the handler source.onended: number of onEnded() calls after it ran
OnEndedHandler_Skip(n) == n
OnEndedHandler(n) == n + 1

\* drawLiveWaveform(): one frame.  attached = canvasRef.current is set, an = analyserRef.current,
\* clk = ctx.currentTime, st = startTimeRef.current, buf = audioBufferRef.current,
\* dur = duration as captured by the closure, ref = animationRef.current,
\* pend = frames still requested, ct = currentTime, cv = canvas.
DrawLive(attached, an, clk, st, buf, dur, ref, pend, ct, cv) ==
  IF ~attached \/ an = 0
  THEN [currentTime |-> ct, canvas |-> cv, animationRef |-> ref, rafPending |-> pend]
  ELSE LET nid == NewRafId(pend, ref)
       IN [currentTime |-> clk - st,
           canvas |-> [kind |-> "live", buf |-> buf],
           animationRef |-> nid,
           rafPending |-> pend \cup {[id |-> nid, dur |-> dur]}]

\* ---- the request limiter's constants and the resting values ---------------
MAX_REQUESTS_PER_WINDOW == 10
RATE_LIMIT_WINDOW_MS == 60 * 1000
DAILY_GLOBAL_CAP == 2000
DAY_MS == 24 * 60 * 60 * 1000

NumIPs == 2          \* client addresses that send requests
IPs == 1..NumIPs

\* ipRequestMap.get(ip) === undefined (an entry has count >= 1)
NoEntry == [count |-> 0, resetAt |-> 0]

\* no call made yet
NoResult == [n |-> 0, ip |-> 0, allowed |-> TRUE, retryAfter |-> 0]

\* the module as loaded at time 0: nothing counted
LimiterIdle ==
  /\ now = 0
  /\ dailyCount = 0
  /\ dailyResetAt = DAY_MS
  /\ ipRequestMap = [ip \in IPs |-> NoEntry]
  /\ rlResult = NoResult

BarsIdle ==
  bars = [n |-> 1, D |-> 0, E |-> 0, height |-> 1, data |-> <<>>, cut |-> <<>>,
          range |-> <<>>, peak |-> <<>>, barHeight |-> <<>>, played |-> {},
          done |-> FALSE]

FmtIdle == fmt = [seconds |-> 0, text |-> <<>>, done |-> FALSE]

\* ---- initial state: after the first commit and its effects ---------------
PlayerInit ==
  /\ phase = "mounted"
  /\ isPlaying = FALSE
  /\ effIsPlaying = FALSE
  /\ audioBase64 = 1
  /\ gen = 1
  /\ \E st \in {"suspended", "running"} :
        ctxState = [g \in Gens |-> IF g = 1 THEN st ELSE "none"]
  /\ clock = 0
  /\ decodes = {1}
  /\ audioBufferRef = 0
  /\ duration = 0
  /\ currentTime = 0
  /\ startTimeRef = 0
  /\ nSess = 0
  /\ srcState = [s \in Sessions |-> "none"]
  /\ srcBuf = [s \in Sessions |-> 0]
  /\ srcStart = [s \in Sessions |-> 0]
  /\ endedQ = {}
  /\ endedCalls = [s \in Sessions |-> 0]
  /\ sourceRef = 0
  /\ analyserRef = 0
  /\ animationRef = 0
  /\ rafPending = {}
  /\ canvas = [kind |-> "blank", buf |-> 0]
  /\ unhandled = {}
  /\ stopError = FALSE

Init == PlayerInit /\ LimiterIdle /\ BarsIdle /\ FmtIdle

\* ---- the parent (Page) ---------------------------------------------------

\* handlePlayPause: setIsPlaying(prev => !prev)
TogglePlay ==
  /\ UNCHANGED <<nonPlayerVars, unhandled, stopError>>
  /\ phase = "mounted"
  /\ isPlaying \/ nSess < MaxSessions
  /\ isPlaying' = ~isPlaying
  /\ UNCHANGED <<phase, effIsPlaying, audioBase64, gen, ctxState, clock,
                 decodes, audioBufferRef, duration, currentTime, startTimeRef, nSess,
                 srcState, srcBuf, srcStart, endedQ, endedCalls, sourceRef,
                 analyserRef, animationRef, rafPending, canvas>>

\* the parent passes another audioBase64
ChangePayload ==
  /\ UNCHANGED <<nonPlayerVars, unhandled, stopError>>
  /\ phase = "mounted"
  /\ gen < MaxGen
  /\ audioBase64 = gen
  /\ audioBase64' = gen + 1
  /\ UNCHANGED <<phase, isPlaying, effIsPlaying, gen, ctxState, clock,
                 decodes, audioBufferRef, duration, currentTime, startTimeRef, nSess,
                 srcState, srcBuf, srcStart, endedQ, endedCalls, sourceRef,
                 analyserRef, animationRef, rafPending, canvas>>

\* the parent stops rendering the player: React detaches the refs ...
Unmount ==
  /\ UNCHANGED <<nonPlayerVars, unhandled, stopError>>
  /\ phase = "mounted"
  /\ phase' = "detached"
  /\ UNCHANGED <<isPlaying, effIsPlaying, audioBase64, gen, ctxState, clock,
                 decodes, audioBufferRef, duration, currentTime, startTimeRef, nSess,
                 srcState, srcBuf, srcStart, endedQ, endedCalls, sourceRef,
                 analyserRef, animationRef, rafPending, canvas>>

\* the source nodes after the context of the playing ones got state cst
SourcesOnClose(ss, cst) == [s \in Sessions |-> SourceOnClose(ss[s], cst)]

\* per-node data kept only while the node plays
WhilePlaying(f, ss) == [s \in Sessions |-> IF ss[s] = "playing" THEN f[s] ELSE 0]

\* ... and then runs the cleanup of the [audioBase64] effect
Cleanup ==
  /\ UNCHANGED <<nonPlayerVars, unhandled, stopError>>
  /\ phase = "detached"
  /\ phase' = "unmounted"
  /\ rafPending' = CancelFrame(rafPending, animationRef)
  /\ LET cst == CloseCtx(ctxState[gen])
         ss == SourcesOnClose(srcState, cst)
     IN /\ ctxState' = [ctxState EXCEPT ![gen] = cst]
        /\ srcState' = ss
        /\ srcBuf' = WhilePlaying(srcBuf, ss)
        /\ srcStart' = WhilePlaying(srcStart, ss)
  /\ UNCHANGED <<isPlaying, effIsPlaying, audioBase64, gen, clock,
                 decodes, audioBufferRef, duration, currentTime, startTimeRef, nSess,
                 endedQ, endedCalls, sourceRef, analyserRef, animationRef, canvas>>

\* ---- the player ----------------------------------------------------------

\* React commits the pending props and runs the effects whose dependency
\* changed: first the cleanup of the [audioBase64] effect (cancel the frame,
\* close the context), then its body (new context, decode), then the
\* [isPlaying] effect (startPlayback or stopPlayback).
Commit ==
  /\ UNCHANGED <<nonPlayerVars, unhandled>>
  /\ phase = "mounted"
  /\ LET payloadChanged == audioBase64 # gen
         playChanged == isPlaying # effIsPlaying
     IN
     /\ payloadChanged \/ playChanged
     /\ \E st0 \in {"suspended", "running"} :
        /\ ~payloadChanged => st0 = "suspended"
        /\ LET raf1 == IF payloadChanged THEN CancelFrame(rafPending, animationRef)
                       ELSE rafPending
               gen1 == IF payloadChanged THEN gen + 1 ELSE gen
               cst == CloseCtx(ctxState[gen])
               ctx1 == IF payloadChanged
                       THEN [ctxState EXCEPT ![gen] = cst, ![gen + 1] = st0]
                       ELSE ctxState
               ss1 == IF payloadChanged THEN SourcesOnClose(srcState, cst) ELSE srcState
               clock1 == IF payloadChanged THEN 0 ELSE clock
               start == playChanged /\ isPlaying /\ audioBufferRef # 0
               stop == playChanged /\ ~isPlaying
               s == nSess + 1
               live == DrawLive(TRUE, s, clock1, clock1, audioBufferRef, duration,
                                animationRef, raf1, currentTime, canvas)
           IN
           /\ start => nSess < MaxSessions
           /\ gen' = gen1
           /\ decodes' = IF payloadChanged THEN decodes \cup {gen1} ELSE decodes
           /\ clock' = clock1
           /\ effIsPlaying' = isPlaying
           /\ IF start
              THEN \* startPlayback(), which ends by calling drawLiveWaveform()
                   LET ss2 == [ss1 EXCEPT ![s] = "playing"]
                   IN /\ ctxState' = [ctx1 EXCEPT ![gen1] = ResumeCtx(@)]
                      /\ nSess' = s
                      /\ analyserRef' = s
                      /\ sourceRef' = s
                      /\ startTimeRef' = clock1
                      /\ srcState' = ss2
                      /\ srcBuf' = WhilePlaying([srcBuf EXCEPT ![s] = audioBufferRef], ss2)
                      /\ srcStart' = WhilePlaying([srcStart EXCEPT ![s] = clock1], ss2)
                      /\ currentTime' = live.currentTime
                      /\ canvas' = live.canvas
                      /\ animationRef' = live.animationRef
                      /\ rafPending' = live.rafPending
                      /\ UNCHANGED <<endedQ, stopError>>
              ELSE IF stop
              THEN \* stopPlayback()
                   LET ss2 == IF sourceRef # 0
                              THEN [ss1 EXCEPT ![sourceRef] = SourceAfterStop(@)]
                              ELSE ss1
                   IN /\ ctxState' = ctx1
                      /\ rafPending' = CancelFrame(raf1, animationRef)
                      /\ stopError' = (\/ stopError
                                       \/ /\ sourceRef # 0
                                          /\ \E threw \in StopThrows(ss1[sourceRef]) :
                                                StopEscapes(threw))
                      /\ srcState' = ss2
                      /\ srcBuf' = WhilePlaying(srcBuf, ss2)
                      /\ srcStart' = WhilePlaying(srcStart, ss2)
                      /\ endedQ' = IF sourceRef # 0 /\ StopQueuesEnded(ss1[sourceRef])
                                   THEN endedQ \cup {sourceRef} ELSE endedQ
                      /\ sourceRef' = 0
                      /\ canvas' = IF audioBufferRef # 0
                                   THEN DrawStatic(TRUE, canvas, audioBufferRef) ELSE canvas
                      /\ UNCHANGED <<nSess, analyserRef, startTimeRef, currentTime,
                                     animationRef>>
              ELSE \* startPlayback() returned at its guard, or isPlaying did not change
                   /\ ctxState' = ctx1
                   /\ rafPending' = raf1
                   /\ srcState' = ss1
                   /\ srcBuf' = WhilePlaying(srcBuf, ss1)
                   /\ srcStart' = WhilePlaying(srcStart, ss1)
                   /\ UNCHANGED <<nSess, analyserRef, sourceRef, startTimeRef, endedQ,
                                  currentTime, canvas, animationRef, stopError>>
  /\ UNCHANGED <<phase, isPlaying, audioBase64, audioBufferRef, duration, endedCalls>>

\* decodeAudioData(...).then(buffer => ...) of the decode started by run g
DecodeDone(g) ==
  /\ UNCHANGED <<nonPlayerVars, unhandled, stopError>>
  /\ g \in decodes
  /\ decodes' = decodes \ {g}
  /\ audioBufferRef' = g
  /\ duration' = IF phase = "mounted" THEN Dur(g) ELSE duration
  /\ canvas' = DrawStatic(phase = "mounted", canvas, g)
  /\ UNCHANGED <<phase, isPlaying, effIsPlaying, audioBase64, gen, ctxState,
                 clock, currentTime, startTimeRef, nSess, srcState, srcBuf,
                 srcStart, endedQ, endedCalls, sourceRef, analyserRef, animationRef,
                 rafPending>>

\* the decode started by run g rejects (malformed or empty payload)
DecodeFail(g) ==
  /\ UNCHANGED <<nonPlayerVars, stopError>>
  /\ g \in decodes
  /\ decodes' = decodes \ {g}
  /\ unhandled' = unhandled \cup RejectionUnhandled(g)
  /\ UNCHANGED <<phase, isPlaying, effIsPlaying, audioBase64, gen, ctxState,
                 clock, audioBufferRef, duration, currentTime, startTimeRef, nSess,
                 srcState, srcBuf, srcStart, endedQ, endedCalls, sourceRef,
                 analyserRef, animationRef, rafPending, canvas>>

\* a requested animation frame fires: drawLiveWaveform()
Frame(r) ==
  /\ UNCHANGED <<nonPlayerVars, unhandled, stopError>>
  /\ r \in rafPending
  /\ LET live == DrawLive(phase = "mounted", analyserRef, clock, startTimeRef,
                          audioBufferRef, r.dur, animationRef, rafPending \ {r},
                          currentTime, canvas)
     IN /\ currentTime' = live.currentTime
        /\ canvas' = live.canvas
        /\ animationRef' = live.animationRef
        /\ rafPending' = live.rafPending
  /\ UNCHANGED <<phase, isPlaying, effIsPlaying, audioBase64, gen, ctxState,
                 clock, decodes, audioBufferRef, duration, startTimeRef, nSess, srcState,
                 srcBuf, srcStart, endedQ, endedCalls, sourceRef, analyserRef>>

\* the audio thread: the clock of the running context advances; a source
\* that has played its whole buffer finishes and its "ended" event is queued.
\* (Contexts before gen are closed, so a node that plays is on context gen.)
Finishes(s, clk) ==
  /\ srcState[s] = "playing"
  /\ clk - srcStart[s] >= Dur(srcBuf[s])

Tick ==
  /\ UNCHANGED <<nonPlayerVars, unhandled, stopError>>
  /\ ctxState[gen] = "running"
  /\ clock < MaxClock
  /\ clock' = clock + 1
  /\ LET ss == [s \in Sessions |-> IF Finishes(s, clock + 1) THEN "finished"
                                   ELSE srcState[s]]
     IN /\ srcState' = ss
        /\ srcBuf' = WhilePlaying(srcBuf, ss)
        /\ srcStart' = WhilePlaying(srcStart, ss)
  /\ endedQ' = endedQ \cup {s \in Sessions : Finishes(s, clock + 1)}
  /\ UNCHANGED <<phase, isPlaying, effIsPlaying, audioBase64, gen, ctxState,
                 decodes, audioBufferRef, duration, currentTime, startTimeRef, nSess,
                 endedCalls, sourceRef, analyserRef, animationRef, rafPending, canvas>>

\* the "ended" event of source s is dispatched: source.onended runs
\* onEnded() (Page: setIsPlaying(false)) and setCurrentTime(0)
Ended(s) ==
  /\ UNCHANGED <<nonPlayerVars, unhandled, stopError>>
  /\ s \in endedQ
  /\ endedQ' = endedQ \ {s}
  /\ endedCalls' = [endedCalls EXCEPT ![s] = OnEndedHandler(@)]
  /\ isPlaying' = FALSE
  /\ currentTime' = IF phase = "mounted" THEN 0 ELSE currentTime
  /\ UNCHANGED <<phase, effIsPlaying, audioBase64, gen, ctxState, clock,
                 decodes, audioBufferRef, duration, startTimeRef, nSess, srcState,
                 srcBuf, srcStart, sourceRef, analyserRef, animationRef,
                 rafPending, canvas>>

Next ==
  \/ TogglePlay
  \/ ChangePayload
  \/ Unmount
  \/ Cleanup
  \/ Commit
  \/ \E g \in Gens : DecodeDone(g)
  \/ \E g \in Gens : DecodeFail(g)
  \/ \E r \in rafPending : Frame(r)
  \/ Tick
  \/ \E s \in Sessions : Ended(s)

Spec == Init /\ [][Next]_vars

TypeOK ==
  /\ phase \in {"mounted", "detached", "unmounted"}
  /\ isPlaying \in BOOLEAN /\ effIsPlaying \in BOOLEAN
  /\ audioBase64 \in Gens
  /\ gen \in Gens
  /\ clock \in 0..MaxClock
  /\ decodes \subseteq Gens
  /\ audioBufferRef \in 0..MaxGen
  /\ nSess \in 0..MaxSessions
  /\ sourceRef \in 0..MaxSessions
  /\ endedQ \subseteq Sessions

\* ---- vocabulary of the claims --------------------------------------------

\* Playing: the graph held by sourceRef is active and a frame is requested
Playing == sourceRef # 0 /\ Active(sourceRef) /\ rafPending # {}

\* the step is the execution of a requested frame
FrameStep == \E r \in rafPending : Frame(r)

\* stopPlayback was the last run of the [isPlaying] effect, or the player is torn down
Stopped == ~effIsPlaying \/ phase = "unmounted"

\* ---- claims --------------------------------------------------------------

\* C1: at most one audio source graph is active (started and neither
\* stopped, ended nor on a closed context) at any time.
C1_AtMostOneActive == Cardinality(ActiveSources) <= 1

\* a second session is active after the first one was torn down
C1_Witness == nSess >= 2 /\ Active(nSess) /\ srcState[1] = "stopped"

\* C2 (as claimed): play was requested before the decode completed (the
\* [isPlaying] effect ran with isPlaying = true and no source was ever
\* created); once the decode of the current payload has completed,
\* isPlaying = true implies an active graph and a running frame loop.
C2_PlayBeforeDecode ==
  (/\ phase = "mounted" /\ isPlaying /\ effIsPlaying /\ nSess = 0
   /\ audioBufferRef = gen /\ decodes = {})
  => (ActiveSources # {} /\ rafPending # {})

\* C3 (as claimed): after the natural end of the last session (its source
\* finished and its ended handler ran) and the return to Idle, the
\* currentTime shown is 0.
C3_NaturalEndResets ==
  (/\ phase = "mounted" /\ nSess >= 1
   /\ srcState[nSess] = "finished" /\ nSess \notin endedQ
   /\ ~isPlaying /\ ~effIsPlaying /\ sourceRef = 0 /\ rafPending = {})
  => currentTime = 0

\* C4: onEnded is invoked at most once for a session, and exactly once for a
\* session whose source played to its end once its ended event was dispatched.
C4_OnEndedOnce ==
  \A s \in Sessions :
    /\ endedCalls[s] <= 1
    /\ (srcState[s] = "finished" /\ s \notin endedQ) => endedCalls[s] = 1

\* a source played to its end and its handler called onEnded
C4_Witness == \E s \in Sessions : srcState[s] = "finished" /\ endedCalls[s] = 1

\* C5: the effect run that commits a pause while Playing leaves, in the same
\* step, the source stopped, sourceRef cleared, no frame requested and the
\* static waveform on the canvas.
C5_PauseReachesIdle ==
  [][ (phase = "mounted" /\ Playing /\ effIsPlaying /\ ~effIsPlaying')
      => /\ sourceRef' = 0
         /\ srcState'[sourceRef] # "playing"
         /\ ActiveSources' = {}
         /\ rafPending' = {}
         /\ canvas'.kind = "static" ]_vars

\* the pause of a playing session has just been committed
C5_Witness ==
  /\ phase = "mounted" /\ ~effIsPlaying /\ gen = 1 /\ nSess >= 1
  /\ srcState[nSess] = "stopped" /\ nSess \in endedQ
  /\ sourceRef = 0 /\ rafPending = {} /\ canvas.kind = "static"

\* C6 (as claimed): the elapsed time a frame reports never exceeds the
\* decoded duration.
C6_ElapsedWithinDuration ==
  [][ (FrameStep /\ phase = "mounted" /\ sourceRef # 0)
      => currentTime' <= duration ]_vars

\* C7 (as claimed): while the frame loop of one session runs, the value
\* given to setCurrentTime never goes down, resets included.
C7_Monotonic ==
  [][ (/\ phase = "mounted" /\ sourceRef # 0 /\ sourceRef' = sourceRef
       /\ rafPending # {} /\ rafPending' # {})
      => currentTime' >= currentTime ]_vars

\* C8 (as claimed): a source that plays never plays a buffer decoded from a
\* payload earlier than the current one.
C8_NoStaleBuffer ==
  \A s \in Sessions : srcState[s] = "playing" => srcBuf[s] = gen

\* C9: after teardown no audio context is open, no frame is requested and
\* no frame runs.
C9_TeardownReleases ==
  [][ /\ phase' = "unmounted"
         => /\ \A g \in Gens : ctxState'[g] \in {"none", "closed"}
            /\ rafPending' = {}
      /\ phase = "unmounted" => ~FrameStep ]_vars

\* the player was torn down while a source was playing: the teardown closed
\* the context under it
C9_Witness ==
  /\ phase = "unmounted" /\ effIsPlaying /\ gen = 1
  /\ ctxState[1] = "closed"
  /\ \E s \in Sessions : srcState[s] = "closed"

\* C10: once stopPlayback or the teardown has run, no frame is requested and
\* none executes until startPlayback runs again.
C10_NoStrayFrame ==
  [][ /\ Stopped' => rafPending' = {}
      /\ Stopped => ~FrameStep ]_vars

\* frames of a session ran and reported time, then the pause was committed
C10_Witness ==
  /\ phase = "mounted" /\ ~effIsPlaying /\ nSess >= 1
  /\ srcState[nSess] = "stopped" /\ sourceRef = 0
  /\ currentTime > 0 /\ rafPending = {}

\* ---- scheduling --------------------------------------------------------
\* React runs the effects of a pending commit and the cleanup of an unmount,
\* the browser runs requested frames, dispatches queued "ended" events and
\* settles decodes; nothing obliges the user to act.
FairSpec ==
  /\ Spec
  /\ SF_vars(Commit)
  /\ WF_vars(Cleanup)
  /\ WF_vars(\E r \in rafPending : Frame(r))
  /\ WF_vars(\E s \in Sessions : Ended(s))
  /\ WF_vars(\E g \in Gens : DecodeDone(g))

\* the source held by sourceRef played to its end and its ended handler has
\* run, while the frame loop is still requested
NaturalEndDelivered ==
  /\ phase = "mounted" /\ sourceRef # 0
  /\ srcState[sourceRef] = "finished" /\ sourceRef \notin endedQ
  /\ rafPending # {}

\* C11 (as claimed): after a natural end the frame loop is eventually
\* cancelled and, while the player is mounted, the static waveform redrawn.
C11_NaturalEndCancels ==
  NaturalEndDelivered ~> (rafPending = {} /\ (phase = "mounted" => canvas.kind = "static"))

\* C12 (as claimed): a decode failure does not escape the component as an
\* unhandled fault.
C12_DecodeFailureContained == unhandled = {}

\* C13 (as claimed): a static draw happens only while no live frame loop runs,
\* and a live frame draws only while the player is playing.
C13_RenderersExclusive ==
  [][ /\ (canvas' # canvas /\ canvas'.kind = "static") => rafPending' = {}
      /\ (FrameStep /\ canvas'.kind = "live") => (effIsPlaying /\ phase = "mounted") ]_vars

\* C14: at most one animation frame is requested at any time.
C14_OneFramePending == Cardinality(rafPending) <= 1

\* the frame sequence of a second session runs after the first was cancelled
C14_Witness == nSess >= 2 /\ Active(nSess) /\ Cardinality(rafPending) = 1 /\ currentTime > 0

\* C15: no exception of stop() leaves stopPlayback, and a stop leaves the
\* player Idle, also when the source had already ended or no source is held.
C15_StopRepeatable ==
  /\ ~stopError
  /\ (phase = "mounted" /\ ~effIsPlaying) => (sourceRef = 0 /\ rafPending = {})

\* stopPlayback ran on a source that had already played to its end
C15_Witness ==
  /\ phase = "mounted" /\ ~effIsPlaying /\ nSess >= 1
  /\ srcState[nSess] = "finished" /\ nSess \notin endedQ /\ sourceRef = 0

\* C18 (as claimed): the ended event of an earlier session's source,
\* dispatched while a later session plays, changes neither isPlaying nor
\* currentTime.
C18_StaleEndedHarmless ==
  [][ (Playing /\ \E s \in endedQ : s # sourceRef /\ Ended(s))
      => (isPlaying' = isPlaying /\ currentTime' = currentTime) ]_vars

\* C19 (as claimed): once every decode has completed, the player holds the
\* buffer and the duration of the current payload.
C19_LatestPayloadWins ==
  (phase = "mounted" /\ decodes = {} /\ unhandled = {})
  => (audioBufferRef = gen /\ duration = Dur(gen))

\* =========================================================================
\* The pure functions and the request limiter are checked under
\* specifications of their own; the player rests in its mounted state.
\* =========================================================================
PlayerIdle == PlayerInit /\ ctxState[1] = "suspended"

\* ---- drawLiveWaveform: played and unplayed bars ----------------------------
MaxBars == 4         \* barCount 1..MaxBars
MaxBarDur == 3       \* duration 0..MaxBarDur
MaxBarElapsed == 4   \* elapsed 0..MaxBarElapsed

\* a quotient a/b of the code, kept exact as [num, den] with den > 0
Frac(a, b) == [num |-> a, den |-> b]

\* x <= y for quotients
FracLeq(x, y) == x.num * y.den <= y.num * x.den

\* const progress = duration > 0 ? elapsed / duration : 0
Progress(E, D) == IF D > 0 THEN Frac(E, D) ELSE Frac(0, 1)

\* barProgress <= progress, with barProgress = i / barCount
BarPlayed_Strict(i, n, prog) == ~FracLeq(prog, Frac(i, n))
BarPlayed(i, n, prog) == FracLeq(Frac(i, n), prog)

\* the bars the loop over i fills with the played colour
PlayedBars(n, E, D) == {i \in 0..(n - 1) : BarPlayed(i, n, Progress(E, D))}

\* ---- the sample range, peak and height of a bar ---------------------------
MaxSamples == 3      \* channel data of 0..MaxSamples samples

\* sample values, in units of full scale
Amps == {-1, 0, 1}

\* canvas heights in pixels
Heights == {1, 10}

\* channel data of length N, indexed from 0
ChannelData == UNION {[0..(N - 1) -> Amps] : N \in 0..MaxSamples}

DataLength(data) == Cardinality(DOMAIN data)

\* Math.floor((i / barCount) * N) in exact arithmetic
ExactCut(i, n, N) == (i * N) \div n

\* Math.floor((i / barCount) * N) in doubles: i / barCount is rounded and so
\* is its product with N, so where i * N / barCount is a whole number k >= 1
\* the product may fall just below k and the floor is k - 1 (i = 0 gives 0
\* and i = barCount gives N exactly).
RoundingPoints(n, N) == {i \in 1..(n - 1) : i * N > 0 /\ (i * N) % n = 0}

\* the values the expression takes for i = 0..barCount: one expression, so
\* the end of bar i and the start of bar i + 1 are the same number
Cuts(n, N) ==
  {[i \in 0..n |-> IF i \in R THEN ExactCut(i, n, N) - 1 ELSE ExactCut(i, n, N)] :
     R \in SUBSET RoundingPoints(n, N)}

\* for (let j = start; j < end; j++)
RangeOf_Inclusive(i, cut) == cut[i]..cut[i + 1]
RangeOf(i, cut) == cut[i]..(cut[i + 1] - 1)

Abs(x) == IF x < 0 THEN -x ELSE x

\* Math.abs(data[j]); an index outside the data reads undefined, whose
\* absolute value NaN is greater than nothing and leaves max as it is
SampleAbs(data, j) == IF j \in DOMAIN data THEN Abs(data[j]) ELSE 0

\* let max = 0; ... if (abs > max) max = abs
RECURSIVE PeakOf(_, _)
PeakOf(js, data) ==
  IF js = {} THEN 0
  ELSE LET j == CHOOSE x \in js : TRUE
           rest == PeakOf(js \ {j}, data)
       IN IF SampleAbs(data, j) > rest THEN SampleAbs(data, j) ELSE rest

\* Math.max(2, max * height * 0.8), in tenths of a pixel
BarHeight(peak, height) ==
  IF peak * height * 8 > 20 THEN peak * height * 8 ELSE 20

InitBars ==
  /\ PlayerIdle /\ LimiterIdle /\ FmtIdle
  /\ bars \in [n : 1..MaxBars, D : 0..MaxBarDur, E : 0..MaxBarElapsed,
               height : Heights, data : ChannelData, cut : {<<>>},
               range : {<<>>}, peak : {<<>>}, barHeight : {<<>>},
               played : {{}}, done : {FALSE}]

\* one frame: the range, peak, height and colour of every bar
DrawBars ==
  /\ ~bars.done
  /\ \E cut \in Cuts(bars.n, DataLength(bars.data)) :
       LET Is == 0..(bars.n - 1)
           range == [i \in Is |-> RangeOf(i, cut)]
           peak == [i \in Is |-> PeakOf(range[i], bars.data)]
       IN bars' = [bars EXCEPT
                     !.cut = cut,
                     !.range = range,
                     !.peak = peak,
                     !.barHeight = [i \in Is |-> BarHeight(peak[i], bars.height)],
                     !.played = PlayedBars(bars.n, bars.E, bars.D),
                     !.done = TRUE]
  /\ UNCHANGED <<playerVars, limiterVars, fmt>>

NextBars == DrawBars

SpecBars == InitBars /\ [][NextBars]_vars

\* C16: bar i of barCount is played iff i/barCount <= E/D; with D = 0 the
\* progress is 0 (only bar 0, at position 0, is played).
C16_ProgressColouring ==
  bars.done =>
    \A i \in 0..(bars.n - 1) :
      (i \in bars.played) <=> (IF bars.D > 0 THEN i * bars.D <= bars.E * bars.n
                               ELSE i = 0)

\* a frame in mid-playback whose boundary bar (i/barCount = E/D) is played
\* while a later bar is not
C16_Witness ==
  /\ bars.done /\ bars.D > 0 /\ bars.E > 0 /\ bars.E < bars.D
  /\ \E i \in 1..(bars.n - 1) : i * bars.D = bars.E * bars.n /\ i \in bars.played
  /\ \E i \in 1..(bars.n - 1) : i \notin bars.played

\* ---- formatTime -----------------------------------------------------------
MaxSeconds == 3700   \* seconds 0..MaxSeconds

DigitChars == <<"0", "1", "2", "3", "4", "5", "6", "7", "8", "9">>

\* Number.prototype.toString() of a non-negative whole number
RECURSIVE toString(_)
toString(n) ==
  IF n < 10 THEN <<DigitChars[n + 1]>>
  ELSE Append(toString(n \div 10), DigitChars[(n % 10) + 1])

\* String.prototype.padStart(len, ch)
padStart_None(str, len, ch) == str
RECURSIVE padStart(_, _, _)
padStart(str, len, ch) ==
  IF Len(str) >= len THEN str ELSE padStart(<<ch>> \o str, len, ch)

\* formatTime(seconds), seconds a non-negative whole number
formatTime(seconds) ==
  LET m == seconds \div 60
      sec == seconds % 60
  IN toString(m) \o <<":">> \o padStart(toString(sec), 2, "0")

InitFmt ==
  /\ PlayerIdle /\ LimiterIdle /\ BarsIdle
  /\ fmt \in [seconds : 0..MaxSeconds, text : {<<>>}, done : {FALSE}]

\* the component renders formatTime(seconds)
Format ==
  /\ ~fmt.done
  /\ fmt' = [fmt EXCEPT !.text = formatTime(fmt.seconds), !.done = TRUE]
  /\ UNCHANGED <<playerVars, limiterVars, bars>>

NextFmt == Format

SpecFmt == InitFmt /\ [][NextFmt]_vars

\* reading a text back: the value of a digit, of a digit string
DigitVal(ch) == CHOOSE d \in 0..9 : DigitChars[d + 1] = ch

IsDigits(str) == \A k \in 1..Len(str) : \E d \in 0..9 : DigitChars[d + 1] = str[k]

RECURSIVE ParseNat(_)
ParseNat(str) ==
  IF Len(str) = 0 THEN 0
  ELSE 10 * ParseNat(SubSeq(str, 1, Len(str) - 1)) + DigitVal(str[Len(str)])

\* C17: the text is the minutes floor(s/60) in plain decimal, a colon, and
\* s mod 60 in exactly two digits; the four examples of the specification.
C17_FormatTime ==
  fmt.done =>
    LET t == fmt.text
        L == Len(t)
        mins == SubSeq(t, 1, L - 3)
        secs == SubSeq(t, L - 1, L)
    IN /\ L >= 4
       /\ t[L - 2] = ":"
       /\ IsDigits(mins) /\ IsDigits(secs)
       /\ Len(mins) = 1 \/ mins[1] # "0"
       /\ ParseNat(mins) = fmt.seconds \div 60
       /\ ParseNat(secs) = fmt.seconds % 60
       /\ fmt.seconds = 0 => t = <<"0", ":", "0", "0">>
       /\ fmt.seconds = 65 => t = <<"1", ":", "0", "5">>
       /\ fmt.seconds = 599 => t = <<"9", ":", "5", "9">>
       /\ fmt.seconds = 600 => t = <<"1", "0", ":", "0", "0">>

\* a time past one hour with a one-digit seconds part: no rollover, padded
C17_Witness ==
  /\ fmt.done /\ fmt.seconds = 3605
  /\ fmt.text = <<"6", "0", ":", "0", "5">>

\* ---- checkRateLimit -------------------------------------------------------
MaxAdvances == 2     \* steps of the clock in one behaviour
MaxRequests == 3     \* requests in one behaviour
NearCap == 1         \* initial dailyCount within NearCap of the cap
NearLimit == 1       \* initial per-IP count within NearLimit of the limit

\* Math.ceil(a / b), b > 0
Ceil(a, b) == -((-a) \div b)

\* the steps by which Date.now() moves between two events
TimeSteps == {1, RATE_LIMIT_WINDOW_MS}

\* the number of steps the clock has made since the initial state
Advances ==
  (now \div DAY_MS) + ((now % DAY_MS) \div RATE_LIMIT_WINDOW_MS)
    + (now % RATE_LIMIT_WINDOW_MS)

\* if (dailyCount >= DAILY_GLOBAL_CAP)
DailyCapReached_Above(c) == c > DAILY_GLOBAL_CAP
DailyCapReached(c) == c >= DAILY_GLOBAL_CAP

\* if (entry.count >= MAX_REQUESTS_PER_WINDOW)
WindowFull_Above(c) == c > MAX_REQUESTS_PER_WINDOW
WindowFull(c) == c >= MAX_REQUESTS_PER_WINDOW

\* checkRateLimit(ip) at time t: the new module state and the result
checkRateLimit(ip, t, dc, dra, map) ==
  LET dc1 == IF t > dra THEN 0 ELSE dc
      dra1 == IF t > dra THEN t + DAY_MS ELSE dra
      entry == map[ip]
  IN IF DailyCapReached(dc1)
       THEN [dailyCount |-> dc1, dailyResetAt |-> dra1, map |-> map,
             allowed |-> FALSE, retryAfter |-> Ceil(dra1 - t, 1000)]
     ELSE IF entry = NoEntry \/ t > entry.resetAt
       THEN [dailyCount |-> dc1 + 1, dailyResetAt |-> dra1,
             map |-> [map EXCEPT ![ip] =
                        [count |-> 1, resetAt |-> t + RATE_LIMIT_WINDOW_MS]],
             allowed |-> TRUE, retryAfter |-> 0]
     ELSE IF WindowFull(entry.count)
       THEN [dailyCount |-> dc1, dailyResetAt |-> dra1, map |-> map,
             allowed |-> FALSE, retryAfter |-> Ceil(entry.resetAt - t, 1000)]
     ELSE [dailyCount |-> dc1 + 1, dailyResetAt |-> dra1,
           map |-> [map EXCEPT ![ip].count = @ + 1],
           allowed |-> TRUE, retryAfter |-> 0]

\* the requests counted in the live entries of a map
RECURSIVE SumCounts(_, _)
SumCounts(map, ips) ==
  IF ips = {} THEN 0
  ELSE LET ip == CHOOSE x \in ips : TRUE
       IN map[ip].count + SumCounts(map, ips \ {ip})

\* what is left of a daily period that is about to end
DailyLeft == {1, RATE_LIMIT_WINDOW_MS}

\* an entry made by requests at time 0, close to the per-IP limit
InitEntries ==
  {NoEntry} \cup
  [count : (MAX_REQUESTS_PER_WINDOW - NearLimit)..MAX_REQUESTS_PER_WINDOW,
   resetAt : {RATE_LIMIT_WINDOW_MS}]

\* Time 0 is an instant at which each IP has no entry or one just made.
\* Either the module was loaded at this instant and has counted these
\* requests only, or its daily period is about to end and it has counted
\* requests whose entries the periodic cleanup has removed.
InitLimiter ==
  /\ PlayerIdle /\ BarsIdle /\ FmtIdle
  /\ now = 0
  /\ ipRequestMap \in [IPs -> InitEntries]
  /\ rlResult = NoResult
  /\ \/ dailyCount = SumCounts(ipRequestMap, IPs) /\ dailyResetAt = DAY_MS
     \/ /\ dailyCount \in (DAILY_GLOBAL_CAP - NearCap)..DAILY_GLOBAL_CAP
        /\ dailyResetAt \in DailyLeft

\* a request from ip reaches the handler
Request(ip) ==
  LET r == checkRateLimit(ip, now, dailyCount, dailyResetAt, ipRequestMap)
  IN /\ rlResult.n < MaxRequests
     /\ dailyCount' = r.dailyCount
     /\ dailyResetAt' = r.dailyResetAt
     /\ ipRequestMap' = r.map
     /\ rlResult' = [n |-> rlResult.n + 1, ip |-> ip, allowed |-> r.allowed, retryAfter |-> r.retryAfter]
     /\ UNCHANGED <<now, playerVars, bars, fmt>>

\* time passes
Advance(d) ==
  /\ Advances < MaxAdvances
  /\ now' = now + d
  /\ UNCHANGED <<dailyCount, dailyResetAt, ipRequestMap, rlResult, playerVars, bars, fmt>>

\* the setInterval callback deletes the expired entries
Sweep ==
  /\ \E ip \in IPs : ipRequestMap[ip] # NoEntry /\ now > ipRequestMap[ip].resetAt
  /\ ipRequestMap' = [ip \in IPs |->
                        IF ipRequestMap[ip] # NoEntry /\ now > ipRequestMap[ip].resetAt
                        THEN NoEntry ELSE ipRequestMap[ip]]
  /\ UNCHANGED <<now, dailyCount, dailyResetAt, rlResult, playerVars, bars, fmt>>

NextLimiter ==
  \/ \E ip \in IPs : Request(ip)
  \/ \E d \in TimeSteps : Advance(d)
  \/ Sweep

SpecLimiter == InitLimiter /\ [][NextLimiter]_vars

RequestStep == \E ip \in IPs : Request(ip)

\* C20: dailyCount never exceeds DAILY_GLOBAL_CAP, and a request made while
\* it equals the cap and the reset time has not passed is rejected and
\* counts nothing, whatever its IP.
C20_DailyCap ==
  [][ /\ dailyCount' <= DAILY_GLOBAL_CAP
      /\ (RequestStep /\ dailyCount = DAILY_GLOBAL_CAP /\ now <= dailyResetAt)
           => (~rlResult'.allowed /\ dailyCount' = dailyCount) ]_vars

\* the cap was reached by counting, and a request of an IP with room in its
\* own window has been rejected before the reset time
C20_Witness ==
  /\ dailyCount = DAILY_GLOBAL_CAP /\ now <= dailyResetAt
  /\ rlResult.ip # 0 /\ ~rlResult.allowed /\ rlResult.retryAfter > 0
  /\ ipRequestMap[rlResult.ip] = NoEntry
  /\ \E ip \in IPs : ipRequestMap[ip] # NoEntry

\* the entry of ip is inside its window: entry && !(now > entry.resetAt)
InWindow(ip) == ipRequestMap[ip] # NoEntry /\ now <= ipRequestMap[ip].resetAt

\* what C21 says of a request apart from the counters of a rejected one:
\* the count stays within the limit, the window does not move while it is
\* open, and a request of an IP at its limit inside the window is rejected
\* with the seconds left of the window as retryAfter unless the daily cap
\* rejects it first.
WindowRespected(ip) ==
  /\ ipRequestMap'[ip].count <= MAX_REQUESTS_PER_WINDOW
  /\ InWindow(ip) => ipRequestMap'[ip].resetAt = ipRequestMap[ip].resetAt
  /\ (InWindow(ip) /\ ipRequestMap[ip].count = MAX_REQUESTS_PER_WINDOW)
       => /\ ~rlResult'.allowed
          /\ rlResult'.retryAfter >= 0
          /\ \/ dailyCount' = DAILY_GLOBAL_CAP
             \/ /\ rlResult'.retryAfter * 1000 >= ipRequestMap[ip].resetAt - now
                /\ (rlResult'.retryAfter - 1) * 1000 < ipRequestMap[ip].resetAt - now
  /\ ~rlResult'.allowed => ipRequestMap' = ipRequestMap

C22_RangesPartition ==
  bars.done =>
    LET Is == 0..(bars.n - 1)
        N == DataLength(bars.data)
    IN /\ \A j \in 0..(N - 1) : Cardinality({i \in Is : j \in bars.range[i]}) = 1
       /\ \A i \in Is : bars.range[i] \subseteq 0..(N - 1)
       /\ \A i \in Is : \A a, b \in bars.range[i] : a..b \subseteq bars.range[i]
       /\ \A i, k \in Is : i < k => \A a \in bars.range[i], b \in bars.range[k] : a < b
       /\ \A i \in Is : bars.range[i] = {} => (bars.peak[i] = 0 /\ bars.barHeight[i] = 20)

\* more bars than samples: a bar without samples at the minimum height next
\* to a taller bar with a sample, with a boundary that rounding moved
C22_Witness ==
  /\ bars.done /\ DataLength(bars.data) >= 1 /\ bars.n > DataLength(bars.data)
  /\ \E i \in 0..(bars.n - 1) : bars.range[i] = {} /\ bars.barHeight[i] = 20
  /\ \E i \in 0..(bars.n - 1) : bars.range[i] # {} /\ bars.barHeight[i] > 20
  /\ \E i \in 0..bars.n : bars.cut[i] # ExactCut(i, bars.n, DataLength(bars.data))
====
